---- MODULE Spec2Model ----
(***************************************************************************)
(* Model of the tree/node engine of treedesk-rs (src/src/tree.rs).         *)
(*                                                                         *)
(* A node (Rc<RefCell<Node>>) is identified by the heap cell that holds    *)
(* it; cells are numbered by the id the node was constructed with, so the  *)
(* cell of a node and its immutable `id` field coincide.  The fields of    *)
(* the nodes are kept as functions over the cells: children (Vec of strong *)
(* references), parent (Option<Weak>, NoParent for None) and done.  The    *)
(* Tree object is roots, index (the key set of the HashMap; key k maps to  *)
(* the node in cell k) and next_id.  title is the text given at            *)
(* construction; a freed cell holds the empty string.                      *)
(***************************************************************************)
EXTENDS Integers, Sequences, FiniteSets, TLC

\* Largest id alloc_id may hand out in the model (caps next_id).
MaxId == 3

\* Most nodes the model lets the tree hold at once (caps the index size).
MaxNodes == 3

\* Option::None of the `parent` field and of returned ids.
NoParent == 0

Cells == 1..MaxId

\* Ids a caller may pass; those not yet allocated or already deleted are
\* the unknown ones.
Args == 1..MaxId

\* Titles a caller may give to a new node.
Titles == {"task"}

VARIABLES roots, index, children, parent, done, title, next_id, last, created

vars == <<roots, index, children, parent, done, title, next_id, last, created>>

\* The Tree object together with the node cells, as one value.
TreeState ==
    [roots |-> roots, index |-> index, children |-> children,
     parent |-> parent, done |-> done, title |-> title, next_id |-> next_id]

Range(s) == {s[i] : i \in 1..Len(s)}

\* Variant of Retain: the removed entry is replaced by the last one, as
\* Vec::swap_remove does.
Retain_swap_remove(s, id) ==
    IF \E i \in 1..Len(s) : s[i] = id
    THEN LET k == CHOOSE i \in 1..Len(s) : s[i] = id
         IN [i \in 1..(Len(s) - 1) |-> IF i = k THEN s[Len(s)] ELSE s[i]]
    ELSE s

\* Vec::retain(|r| r.borrow().id != id)
Retain(s, id) == SelectSeq(s, LAMBDA x : x # id)

\* Cells reachable from the set S through strong references (children).
RECURSIVE Closure(_, _)
Closure(ch, S) ==
    LET T == S \cup UNION {Range(ch[n]) : n \in S}
    IN IF T = S THEN S ELSE Closure(ch, T)

\* Cells kept alive by a strong reference held by the Tree (roots, index)
\* or by a live node's children.
Live(t) == Closure(t.children, t.index \cup Range(t.roots))

\* Weak::upgrade succeeds exactly when the cell is still alive.
Upgrade(live, p) == p \in live

\* Node::new: the given title, done = false, no children, the given parent.
NewNode(t, id, ttl, par) ==
    [t EXCEPT !.title[id] = ttl, !.children[id] = <<>>, !.parent[id] = par,
              !.done[id] = FALSE]

\* Tree::new
TreeNew ==
    [roots |-> <<>>, index |-> {}, children |-> [c \in Cells |-> <<>>],
     parent |-> [c \in Cells |-> NoParent], done |-> [c \in Cells |-> FALSE],
     title |-> [c \in Cells |-> ""], next_id |-> 1]

\* Variant of alloc_id: numbers a node by the count of indexed nodes.
alloc_id_by_count(t) ==
    [t |-> [t EXCEPT !.next_id = @ + 1], id |-> Cardinality(t.index) + 1]

\* alloc_id: returns next_id and increments it.
alloc_id(t) == [t |-> [t EXCEPT !.next_id = @ + 1], id |-> t.next_id]

\* Recursion depth after which an upward walk is cut off; an acyclic
\* parent chain over the cells is shorter than this.
StackDepth == MaxId + 1

\* Variant of PropagateFrom: recomputes the start node only, no upward walk.
PropagateFrom_no_walk(ch, par, dn, live, n, depth) ==
    IF ch[n] # <<>>
    THEN [dn EXCEPT ![n] = \A i \in 1..Len(ch[n]) : dn[ch[n][i]]]
    ELSE dn

\* Variant of PropagateFrom: recomputes childless nodes too.
RECURSIVE PropagateFrom_childless_too(_, _, _, _, _, _)
PropagateFrom_childless_too(ch, par, dn, live, n, depth) ==
    LET dn1 == [dn EXCEPT ![n] = \A i \in 1..Len(ch[n]) : dn[ch[n][i]]]
    IN IF depth > 1 /\ par[n] # NoParent /\ Upgrade(live, par[n])
       THEN PropagateFrom_childless_too(ch, par, dn1, live, par[n], depth - 1)
       ELSE dn1

\* Variant of PropagateFrom: walks to the parent first and recomputes the
\* node on the way back.
RECURSIVE PropagateFrom_parent_first(_, _, _, _, _, _)
PropagateFrom_parent_first(ch, par, dn, live, n, depth) ==
    LET dn1 == IF depth > 1 /\ par[n] # NoParent /\ Upgrade(live, par[n])
               THEN PropagateFrom_parent_first(ch, par, dn, live, par[n], depth - 1)
               ELSE dn
    IN IF ch[n] # <<>>
       THEN [dn1 EXCEPT ![n] = \A i \in 1..Len(ch[n]) : dn1[ch[n][i]]]
       ELSE dn1

\* Variant of PropagateFrom: a recomputed flag is also written to the
\* children of the node.
RECURSIVE PropagateFrom_writes_children(_, _, _, _, _, _)
PropagateFrom_writes_children(ch, par, dn, live, n, depth) ==
    LET all == \A i \in 1..Len(ch[n]) : dn[ch[n][i]]
        dn1 == IF ch[n] # <<>>
               THEN [c \in DOMAIN dn |->
                        IF c = n \/ c \in Range(ch[n]) THEN all ELSE dn[c]]
               ELSE dn
    IN IF depth > 1 /\ par[n] # NoParent /\ Upgrade(live, par[n])
       THEN PropagateFrom_writes_children(ch, par, dn1, live, par[n], depth - 1)
       ELSE dn1

\* propagate_done_upward: recompute done of n when it has children, then
\* continue at its parent if the weak reference upgrades.
RECURSIVE PropagateFrom(_, _, _, _, _, _)
PropagateFrom(ch, par, dn, live, n, depth) ==
    LET dn1 == IF ch[n] # <<>>
               THEN [dn EXCEPT ![n] = \A i \in 1..Len(ch[n]) : dn[ch[n][i]]]
               ELSE dn
    IN IF depth > 1 /\ par[n] # NoParent /\ Upgrade(live, par[n])
       THEN PropagateFrom(ch, par, dn1, live, par[n], depth - 1)
       ELSE dn1

\* The nodes propagate_done_upward processes, in the order of its calls.
RECURSIVE PropagateVisits(_, _, _, _)
PropagateVisits(par, live, n, depth) ==
    IF depth > 1 /\ par[n] # NoParent /\ Upgrade(live, par[n])
    THEN <<n>> \o PropagateVisits(par, live, par[n], depth - 1)
    ELSE <<n>>

propagate_done_upward(t, live, n) ==
    [t EXCEPT !.done = PropagateFrom(t.children, t.parent, t.done, live, n, StackDepth)]

\* Variant of is_descendant: looks at root and its direct children only.
is_descendant_shallow(ch, root, target) ==
    \/ root = target
    \/ \E i \in 1..Len(ch[root]) : ch[root][i] = target

\* Variant of is_descendant: also true when root lies in target's subtree.
RECURSIVE is_descendant_either_way(_, _, _)
is_descendant_either_way(ch, root, target) ==
    \/ root = target
    \/ \E i \in 1..Len(ch[root]) : is_descendant_either_way(ch, ch[root][i], target)
    \/ \E i \in 1..Len(ch[target]) : ch[target][i] = root

\* is_descendant(root, target): target is root or lies in root's subtree.
RECURSIVE is_descendant(_, _, _)
is_descendant(ch, root, target) ==
    \/ root = target
    \/ \E i \in 1..Len(ch[root]) : is_descendant(ch, ch[root][i], target)

\* Variant of remove_from_index_rec: the loop misses the last child.
RECURSIVE remove_from_index_rec_skip_last(_, _, _)
remove_from_index_rec_skip_last(ch, ix, n) ==
    LET F[k \in 0..Len(ch[n])] ==
            IF k = 0 THEN ix \ {n}
            ELSE remove_from_index_rec_skip_last(ch, F[k - 1], ch[n][k])
    IN IF ch[n] = <<>> THEN F[0] ELSE F[Len(ch[n]) - 1]

\* remove_from_index_rec: remove the key of n, then recurse into each child.
RECURSIVE remove_from_index_rec(_, _, _)
remove_from_index_rec(ch, ix, n) ==
    LET F[k \in 0..Len(ch[n])] ==
            IF k = 0 THEN ix \ {n}
            ELSE remove_from_index_rec(ch, F[k - 1], ch[n][k])
    IN F[Len(ch[n])]

\* Cells whose last strong reference is gone are freed (fields reset).
DropDead(t) ==
    LET live == Live(t)
    IN [t EXCEPT !.children = [c \in Cells |-> IF c \in live THEN @[c] ELSE <<>>],
                 !.parent = [c \in Cells |-> IF c \in live THEN @[c] ELSE NoParent],
                 !.done = [c \in Cells |-> IF c \in live THEN @[c] ELSE FALSE],
                 !.title = [c \in Cells |-> IF c \in live THEN @[c] ELSE ""]]

\* Detach step shared by delete and move_node: remove id from its parent's
\* children and propagate from that parent, or remove it from roots.
Detach(t, id) ==
    LET live == Live(t)
        p == t.parent[id]
    IN IF p # NoParent
       THEN IF Upgrade(live, p)
            THEN propagate_done_upward(
                     [t EXCEPT !.children[p] = Retain(@, id)], live, p)
            ELSE t
       ELSE [t EXCEPT !.roots = Retain(@, id)]

\* Every operation yields the new tree, the success flag and the returned id.
Result(t, ok, val) == [t |-> t, ok |-> ok, val |-> val]

add_root(t, ttl) ==
    LET a == alloc_id(t)
        t1 == NewNode(a.t, a.id, ttl, NoParent)
    IN Result([t1 EXCEPT !.index = @ \cup {a.id}, !.roots = Append(@, a.id)],
              TRUE, a.id)

\* Variant of add_child: allocates the id before looking the parent up.
add_child_alloc_first(t, parent_id, ttl) ==
    LET a == alloc_id(t)
    IN IF parent_id \notin t.index THEN Result(a.t, FALSE, NoParent)
       ELSE LET t1 == NewNode(a.t, a.id, ttl, parent_id)
                t2 == [t1 EXCEPT !.children[parent_id] = Append(@, a.id),
                                 !.index = @ \cup {a.id}]
            IN Result(propagate_done_upward(t2, Live(t2), parent_id), TRUE, a.id)

\* Variant of add_child: does not propagate after attaching the child.
add_child_no_propagate(t, parent_id, ttl) ==
    IF parent_id \notin t.index THEN Result(t, FALSE, NoParent)
    ELSE LET a == alloc_id(t)
             t1 == NewNode(a.t, a.id, ttl, parent_id)
         IN Result([t1 EXCEPT !.children[parent_id] = Append(@, a.id),
                              !.index = @ \cup {a.id}], TRUE, a.id)

add_child(t, parent_id, ttl) ==
    IF parent_id \notin t.index THEN Result(t, FALSE, NoParent)
    ELSE LET a == alloc_id(t)
             t1 == NewNode(a.t, a.id, ttl, parent_id)
             t2 == [t1 EXCEPT !.children[parent_id] = Append(@, a.id),
                              !.index = @ \cup {a.id}]
         IN Result(propagate_done_upward(t2, Live(t2), parent_id), TRUE, a.id)

\* Variant of toggle: flips the flag and does not propagate.
toggle_no_propagate(t, id) ==
    IF id \notin t.index THEN Result(t, FALSE, NoParent)
    ELSE Result([t EXCEPT !.done[id] = ~@], TRUE, NoParent)

toggle(t, id) ==
    IF id \notin t.index THEN Result(t, FALSE, NoParent)
    ELSE LET t1 == [t EXCEPT !.done[id] = ~@]
         IN Result(propagate_done_upward(t1, Live(t1), id), TRUE, NoParent)

\* Variant of delete: removes only the key of the deleted node.
delete_own_key_only(t, id) ==
    IF id \notin t.index THEN Result(t, FALSE, NoParent)
    ELSE LET t1 == Detach(t, id)
         IN Result(DropDead([t1 EXCEPT !.index = @ \ {id}]), TRUE, NoParent)

\* Variant of delete: the children of the deleted node are kept and become
\* roots.
delete_promotes_children(t, id) ==
    IF id \notin t.index THEN Result(t, FALSE, NoParent)
    ELSE LET t1 == Detach(t, id)
             kids == t1.children[id]
             t2 == [t1 EXCEPT !.index = @ \ {id},
                              !.children[id] = <<>>,
                              !.roots = @ \o kids,
                              !.parent = [c \in Cells |->
                                             IF c \in Range(kids) THEN NoParent ELSE @[c]]]
         IN Result(DropDead(t2), TRUE, NoParent)

delete(t, id) ==
    IF id \notin t.index THEN Result(t, FALSE, NoParent)
    ELSE LET t1 == Detach(t, id)
             t2 == [t1 EXCEPT !.index = remove_from_index_rec(t1.children, @, id)]
         IN Result(DropDead(t2), TRUE, NoParent)

\* Variant of move_node: attaches to the new parent without detaching.
move_node_no_detach(t, id, new_parent_id) ==
    IF id = new_parent_id THEN Result(t, FALSE, NoParent)
    ELSE IF id \notin t.index THEN Result(t, FALSE, NoParent)
    ELSE IF new_parent_id \notin t.index THEN Result(t, FALSE, NoParent)
    ELSE IF is_descendant(t.children, id, new_parent_id) THEN Result(t, FALSE, NoParent)
    ELSE LET t2 == [t EXCEPT !.parent[id] = new_parent_id,
                             !.children[new_parent_id] = Append(@, id)]
         IN Result(propagate_done_upward(t2, Live(t2), new_parent_id), TRUE, NoParent)

\* Variant of move_node: the arguments of the cycle test are swapped.
move_node_swapped_test(t, id, new_parent_id) ==
    IF id = new_parent_id THEN Result(t, FALSE, NoParent)
    ELSE IF id \notin t.index THEN Result(t, FALSE, NoParent)
    ELSE IF new_parent_id \notin t.index THEN Result(t, FALSE, NoParent)
    ELSE IF is_descendant(t.children, new_parent_id, id) THEN Result(t, FALSE, NoParent)
    ELSE LET t1 == Detach(t, id)
             t2 == [t1 EXCEPT !.parent[id] = new_parent_id,
                              !.children[new_parent_id] = Append(@, id)]
         IN Result(propagate_done_upward(t2, Live(t2), new_parent_id), TRUE, NoParent)

\* Variant of move_node: drops the moved subtree from the index, as delete
\* does after detaching.
move_node_unindexes(t, id, new_parent_id) ==
    IF id = new_parent_id THEN Result(t, FALSE, NoParent)
    ELSE IF id \notin t.index THEN Result(t, FALSE, NoParent)
    ELSE IF new_parent_id \notin t.index THEN Result(t, FALSE, NoParent)
    ELSE IF is_descendant(t.children, id, new_parent_id) THEN Result(t, FALSE, NoParent)
    ELSE LET t1 == Detach(t, id)
             t2 == [t1 EXCEPT !.parent[id] = new_parent_id,
                              !.children[new_parent_id] = Append(@, id),
                              !.index = remove_from_index_rec(t1.children, @, id)]
         IN Result(propagate_done_upward(t2, Live(t2), new_parent_id), TRUE, NoParent)

\* Variant of move_node: the parent reference of the moved node is not set.
move_node_keeps_parent(t, id, new_parent_id) ==
    IF id = new_parent_id THEN Result(t, FALSE, NoParent)
    ELSE IF id \notin t.index THEN Result(t, FALSE, NoParent)
    ELSE IF new_parent_id \notin t.index THEN Result(t, FALSE, NoParent)
    ELSE IF is_descendant(t.children, id, new_parent_id) THEN Result(t, FALSE, NoParent)
    ELSE LET t1 == Detach(t, id)
             t2 == [t1 EXCEPT !.children[new_parent_id] = Append(@, id)]
         IN Result(propagate_done_upward(t2, Live(t2), new_parent_id), TRUE, NoParent)

\* Variant of move_node: a move under the current parent returns at once.
move_node_same_parent_noop(t, id, new_parent_id) ==
    IF id = new_parent_id THEN Result(t, FALSE, NoParent)
    ELSE IF id \notin t.index THEN Result(t, FALSE, NoParent)
    ELSE IF new_parent_id \notin t.index THEN Result(t, FALSE, NoParent)
    ELSE IF is_descendant(t.children, id, new_parent_id) THEN Result(t, FALSE, NoParent)
    ELSE IF t.parent[id] = new_parent_id THEN Result(t, TRUE, NoParent)
    ELSE LET t1 == Detach(t, id)
             t2 == [t1 EXCEPT !.parent[id] = new_parent_id,
                              !.children[new_parent_id] = Append(@, id)]
         IN Result(propagate_done_upward(t2, Live(t2), new_parent_id), TRUE, NoParent)

move_node(t, id, new_parent_id) ==
    IF id = new_parent_id THEN Result(t, FALSE, NoParent)
    ELSE IF id \notin t.index THEN Result(t, FALSE, NoParent)
    ELSE IF new_parent_id \notin t.index THEN Result(t, FALSE, NoParent)
    ELSE IF is_descendant(t.children, id, new_parent_id) THEN Result(t, FALSE, NoParent)
    ELSE LET t1 == Detach(t, id)
             t2 == [t1 EXCEPT !.parent[id] = new_parent_id,
                              !.children[new_parent_id] = Append(@, id)]
         IN Result(propagate_done_upward(t2, Live(t2), new_parent_id), TRUE, NoParent)

\* get: pure lookup in index.
get(t, id) ==
    IF id \in t.index THEN Result(t, TRUE, id) ELSE Result(t, FALSE, NoParent)

-----------------------------------------------------------------------------

Init ==
    /\ roots = TreeNew.roots
    /\ index = TreeNew.index
    /\ children = TreeNew.children
    /\ parent = TreeNew.parent
    /\ done = TreeNew.done
    /\ title = TreeNew.title
    /\ next_id = TreeNew.next_id
    /\ last = [op |-> "new", id |-> 0, arg |-> 0, ok |-> TRUE, val |-> NoParent,
               pre |-> {}, from |-> NoParent]
    /\ created = {}

\* One call of the engine: the tree becomes r.t; last records the call, what
\* it returned, the index keys before it and the parent the named node had
\* before it; ids handed out are collected in created.
Call(op, id, arg, r) ==
    /\ roots' = r.t.roots
    /\ index' = r.t.index
    /\ children' = r.t.children
    /\ parent' = r.t.parent
    /\ done' = r.t.done
    /\ title' = r.t.title
    /\ next_id' = r.t.next_id
    /\ last' = [op |-> op, id |-> id, arg |-> arg, ok |-> r.ok, val |-> r.val,
                pre |-> index,
                from |-> IF id \in index THEN parent[id] ELSE NoParent]
    /\ created' = IF op \in {"add_root", "add_child"} /\ r.ok
                  THEN created \cup {r.val} ELSE created

\* The model creates a node only while an id and room for a node are left.
CanCreate == next_id <= MaxId /\ Cardinality(index) < MaxNodes

AddRoot ==
    \E ttl \in Titles :
        /\ CanCreate
        /\ Call("add_root", 0, 0, add_root(TreeState, ttl))

AddChild ==
    \E p \in Args, ttl \in Titles :
        /\ p \in index => CanCreate
        /\ Call("add_child", p, 0, add_child(TreeState, p, ttl))

Toggle ==
    \E id \in Args :
        /\ id \in Args
        /\ Call("toggle", id, 0, toggle(TreeState, id))

Delete ==
    \E id \in Args :
        /\ id \in Args
        /\ Call("delete", id, 0, delete(TreeState, id))

MoveNode ==
    \E id \in Args, np \in Args :
        /\ id \in Args /\ np \in Args
        /\ Call("move_node", id, np, move_node(TreeState, id, np))

Get ==
    \E id \in Args :
        /\ id \in Args
        /\ Call("get", id, 0, get(TreeState, id))

Next == AddRoot \/ AddChild \/ Toggle \/ Delete \/ MoveNode \/ Get

Spec == Init /\ [][Next]_vars

-----------------------------------------------------------------------------
\* Vocabulary of the properties.

TreeVars == <<roots, index, children, parent, done, title, next_id>>

\* Number of positions of the list s that hold n.
Occurrences(s, n) == Cardinality({i \in 1..Len(s) : s[i] = n})

\* Nodes below n: everything reachable from its children lists.
Descendants(ch, n) == Closure(ch, Range(ch[n]))

\* Nodes reached from the set S by following parent links.
RECURSIVE UpClosure(_, _)
UpClosure(par, S) ==
    LET T == S \cup ({par[m] : m \in S} \ {NoParent})
    IN IF T = S THEN S ELSE UpClosure(par, T)

\* Nodes above n: everything reached by following parent links from n.
Ancestors(par, n) ==
    IF par[n] = NoParent THEN {} ELSE UpClosure(par, {par[n]})

\* AND of the done flags of the children of n.
AllChildrenDone(ch, dn, n) == \A i \in 1..Len(ch[n]) : dn[ch[n][i]]

-----------------------------------------------------------------------------

\* C1: after every call, the keys of index are exactly the nodes reachable
\* from roots by following children: no indexed node is unattached and no
\* attached node is missing from the index.
IndexIsReachableSet == index = Closure(children, Range(roots))

\* A delete has just removed a non-root node together with a descendant.
IndexIsReachableSetWitness ==
    /\ last.op = "delete" /\ last.ok
    /\ last.from # NoParent
    /\ Cardinality(last.pre \ index) >= 2

\* C2: after every call, every node with at least one child has done equal
\* to the AND of its children's done flags.
DoneIsAndOfChildren ==
    \A n \in index :
        children[n] # <<>> => (done[n] <=> AllChildrenDone(children, done, n))

\* A move has just taken a node from its old parent to an ancestor of that
\* parent (overlapping ancestor chains), and the new parent is done.
DoneIsAndOfChildrenWitness ==
    /\ last.op = "move_node" /\ last.ok
    /\ last.from # NoParent
    /\ last.arg \in Ancestors(parent, last.from)
    /\ done[last.arg]

\* C3: the structure is acyclic: following parent links from a node never
\* returns to it, and no node appears in its own subtree.
Acyclic ==
    \A n \in Cells :
        /\ n \notin Ancestors(parent, n)
        /\ n \notin Descendants(children, n)

\* A move has just built a chain of three nodes.
AcyclicWitness ==
    /\ last.op = "move_node" /\ last.ok
    /\ parent[last.arg] # NoParent
    /\ parent[last.id] = last.arg

\* C4: every indexed node is held by exactly one owner exactly once: without
\* a parent reference it is once in roots and in no children list, with a
\* parent reference it is once in that parent's children and nowhere else.
SingleOwner ==
    \A n \in index :
        /\ Occurrences(roots, n) = (IF parent[n] = NoParent THEN 1 ELSE 0)
        /\ \A p \in Cells :
              Occurrences(children[p], n) = (IF parent[n] = p THEN 1 ELSE 0)
        /\ parent[n] # NoParent => parent[n] \in index

\* A move has just taken a node out of one children list and appended it to
\* another list that already had a child.
SingleOwnerWitness ==
    /\ last.op = "move_node" /\ last.ok
    /\ last.from \notin {NoParent, last.arg}
    /\ Len(children[last.arg]) >= 2

\* C5: move_node(id, new_parent_id) returns false and leaves the whole tree
\* unchanged whenever new_parent_id equals id or names a descendant of id.
CycleMoveRejected ==
    [][(/\ last'.op = "move_node"
        /\ \/ last'.arg = last'.id
           \/ /\ last'.id \in index
              /\ last'.arg \in Descendants(children, last'.id))
       => (~last'.ok /\ UNCHANGED TreeVars)]_vars

\* A move of an indexed node under one of its own descendants has just been
\* refused.
CycleMoveRejectedWitness ==
    /\ last.op = "move_node" /\ ~last.ok
    /\ last.id \in index
    /\ last.arg # last.id
    /\ last.arg \in Descendants(children, last.id)

\* C6: delete(id) on an indexed node with N descendants returns true, removes
\* exactly that node and its N descendants from the index (the index shrinks
\* by exactly N+1, every other id stays), and get then finds none of them.
DeleteRemovesSubtree ==
    [][(last'.op = "delete" /\ last'.id \in index)
       => LET removed == {last'.id} \cup Descendants(children, last'.id)
              N == Cardinality(Descendants(children, last'.id))
          IN /\ last'.ok
             /\ index' = index \ removed
             /\ Cardinality(index') = Cardinality(index) - (N + 1)
             /\ \A r \in removed : ~get(TreeState', r).ok]_vars

\* A delete has just removed a node with two descendants.
DeleteRemovesSubtreeWitness ==
    /\ last.op = "delete" /\ last.ok
    /\ last.pre \ index = last.pre
    /\ Cardinality(last.pre) >= 3

\* C7: every id returned by add_root or by a successful add_child is strictly
\* greater than every id returned earlier, deleted nodes' ids included.
IdsNeverReused ==
    [][(last'.op \in {"add_root", "add_child"} /\ last'.ok)
       => \A i \in created : last'.val > i]_vars

\* A node has just been created after an earlier node was deleted.
IdsNeverReusedWitness ==
    /\ last.op \in {"add_root", "add_child"} /\ last.ok
    /\ created \ index # {}
    /\ last.val \in index

\* C8 as stated: toggle(id) on an indexed id returns true and the node's done
\* after the call is the negation of its done before the call.
ToggleFlipsAnyNode ==
    [][(last'.op = "toggle" /\ last'.id \in index)
       => (last'.ok /\ (done'[last'.id] <=> ~done[last'.id]))]_vars

\* C8 amended: toggle(id) on an indexed id returns true; a childless node's
\* done is negated, a node with children ends with the AND of its children's
\* done flags, and every ancestor is re-derived from its children.
ToggleFlipsLeafRederivesRest ==
    [][(last'.op = "toggle" /\ last'.id \in index)
       => /\ last'.ok
          /\ children[last'.id] = <<>> => (done'[last'.id] <=> ~done[last'.id])
          /\ children[last'.id] # <<>> =>
                (done'[last'.id] <=> AllChildrenDone(children, done, last'.id))
          /\ \A a \in Ancestors(parent, last'.id) :
                done'[a] <=> AllChildrenDone(children', done', a)
          /\ UNCHANGED <<roots, index, children, parent, title, next_id>>]_vars

\* A toggle has just been applied to a node that has a child and a parent.
ToggleFlipsLeafRederivesRestWitness ==
    /\ last.op = "toggle" /\ last.ok
    /\ children[last.id] # <<>>
    /\ parent[last.id] # NoParent

\* C9: toggling a childless node twice in a row restores its done value and
\* leaves every other part of the tree as it was before the first call.
LeafToggleTwiceRestores ==
    \A id \in index :
        children[id] = <<>> =>
            LET once == toggle(TreeState, id).t
                twice == toggle(once, id).t
            IN /\ once.done[id] # done[id]
               /\ twice = TreeState

\* A toggle has just completed a childless node and thereby its parent.
LeafToggleTwiceRestoresWitness ==
    /\ last.op = "toggle" /\ last.ok
    /\ children[last.id] = <<>>
    /\ parent[last.id] # NoParent
    /\ done[parent[last.id]]

\* C10: a call that names an id absent from the index fails without any
\* mutation: add_child returns no id, toggle, delete and move_node return
\* false, and roots, children, parents, done flags, index and next_id stay.
UnknownIdRejected ==
    [][(\/ last'.op \in {"add_child", "toggle", "delete"} /\ last'.id \notin index
        \/ last'.op = "move_node" /\ (last'.id \notin index \/ last'.arg \notin index))
       => (~last'.ok /\ last'.val = NoParent /\ UNCHANGED TreeVars)]_vars

\* An add_child under a deleted parent has just failed in a tree that still
\* holds nodes.
UnknownIdRejectedWitness ==
    /\ last.op = "add_child" /\ ~last.ok
    /\ last.id \in created \ index
    /\ index # {}

\* C11: when delete removes the last remaining child of a node, that node's
\* done flag after the call equals its value before the call.
LastChildDeleteKeepsDone ==
    [][(/\ last'.op = "delete"
        /\ last'.id \in index
        /\ parent[last'.id] # NoParent
        /\ children[parent[last'.id]] = <<last'.id>>)
       => /\ last'.ok
          /\ children'[parent[last'.id]] = <<>>
          /\ done'[parent[last'.id]] = done[parent[last'.id]]]_vars

\* A delete has just left a done parent without children.
LastChildDeleteKeepsDoneWitness ==
    /\ last.op = "delete" /\ last.ok
    /\ last.from \in index
    /\ children[last.from] = <<>>
    /\ done[last.from]

\* C12: a successful add_child creates a node with done = false, no children
\* and parent reference parent_id, appends it as the last child of the
\* parent, registers it in the index, and leaves the parent and every
\* ancestor of the parent not done.
AddChildAttachesAndUncompletes ==
    [][(last'.op = "add_child" /\ last'.ok)
       => LET c == last'.val
              p == last'.id
          IN /\ c \notin index /\ index' = index \cup {c}
             /\ ~done'[c]
             /\ children'[c] = <<>>
             /\ parent'[c] = p
             /\ title'[c] \in Titles
             /\ children'[p] = Append(children[p], c)
             /\ \A a \in {p} \cup Ancestors(parent, p) : ~done'[a]]_vars

\* An add_child has just put a node under a parent that has a parent itself.
AddChildAttachesAndUncompletesWitness ==
    /\ last.op = "add_child" /\ last.ok
    /\ parent[last.val] = last.id
    /\ parent[last.id] # NoParent
    /\ ~done[parent[last.id]]

\* C13: an indexed id stays indexed across every call except a delete of
\* that node or of one of its ancestors, and an id once removed is never
\* indexed, hence never found by get, again.
NodeCeasesOnlyByDelete ==
    [][/\ \A n \in index :
            ~(/\ last'.op = "delete"
              /\ last'.id \in {n} \cup Ancestors(parent, n))
            => (n \in index' /\ get(TreeState', n).ok)
       /\ \A n \in created \ index :
            /\ n \notin index'
            /\ ~get(TreeState', n).ok
            /\ (last'.op = "get" /\ last'.id = n) => ~last'.ok]_vars

\* A get of a deleted id has just reported not-found while other nodes are
\* still indexed.
NodeCeasesOnlyByDeleteWitness ==
    /\ last.op = "get" /\ ~last.ok
    /\ last.id \in created \ index
    /\ index # {}

\* The node n together with the nodes above it.
ChainFrom(par, n) == IF n = NoParent THEN {} ELSE {n} \cup Ancestors(par, n)

\* C14: a successful move_node removes the node from its former owner, sets
\* its parent reference to new_parent_id and makes it the last child of the
\* new parent; the index keys, next_id, all titles, the moved node's done
\* flag and the structure and done flags inside the moved subtree stay; done
\* flags change only on the old parent's and the new parent's ancestor chains.
MoveFrame ==
    [][(last'.op = "move_node" /\ last'.ok)
       => LET id == last'.id
              np == last'.arg
              old == parent[id]
              sub == {id} \cup Descendants(children, id)
          IN /\ IF old = NoParent
                THEN roots' = Retain(roots, id)
                ELSE /\ roots' = roots
                     /\ old # np => children'[old] = Retain(children[old], id)
             /\ id \notin Range(roots')
             /\ \A p \in Cells \ {np} : id \notin Range(children'[p])
             /\ parent'[id] = np
             /\ children'[np] = Append(Retain(children[np], id), id)
             /\ index' = index /\ next_id' = next_id /\ title' = title
             /\ done'[id] = done[id]
             /\ \A n \in sub :
                   /\ children'[n] = children[n]
                   /\ done'[n] = done[n]
                   /\ n # id => parent'[n] = parent[n]
             /\ \A n \in Cells :
                   done'[n] # done[n] =>
                       n \in ChainFrom(parent, old) \cup ChainFrom(parent, np)]_vars

\* A move has just put a done node that has a child of its own under a new
\* parent.
MoveFrameWitness ==
    /\ last.op = "move_node" /\ last.ok
    /\ parent[last.id] = last.arg
    /\ children[last.id] # <<>>
    /\ done[last.id]

\* The tree with the done flags of the indexed nodes set to exactly S: the
\* states propagation may be started in.
WithDone(S) ==
    [TreeState EXCEPT !.done = [c \in Cells |-> IF c \in index THEN c \in S ELSE @[c]]]

\* C15: upward propagation is idempotent: running it from a node and then
\* again from the same node yields the same done flags as running it once.
PropagationIdempotent ==
    \A S \in SUBSET index : \A n \in index :
        LET t0 == WithDone(S)
            once == propagate_done_upward(t0, Live(t0), n)
            twice == propagate_done_upward(once, Live(once), n)
        IN twice = once

\* Some assignment of done flags exists for which propagation from a node
\* changes the flag of that node's grandparent.
PropagationIdempotentWitness ==
    \E S \in SUBSET index : \E n \in index :
        /\ parent[n] # NoParent /\ parent[parent[n]] # NoParent
        /\ LET t0 == WithDone(S)
               once == propagate_done_upward(t0, Live(t0), n)
           IN once.done[parent[parent[n]]] # t0.done[parent[parent[n]]]

\* C16: upward propagation started at any node terminates: it processes the
\* start node and then each ancestor exactly once in child-to-parent order,
\* stops after a node with no parent, and changes no done flag off that chain.
PropagationWalksChainOnce ==
    \A n \in index :
        LET v == PropagateVisits(parent, Live(TreeState), n, StackDepth)
        IN /\ Len(v) < StackDepth
           /\ v[1] = n
           /\ \A i \in 1..(Len(v) - 1) : v[i + 1] = parent[v[i]]
           /\ parent[v[Len(v)]] = NoParent
           /\ \A i, j \in 1..Len(v) : v[i] = v[j] => i = j
           /\ Range(v) = ChainFrom(parent, n)
           /\ \A S \in SUBSET index :
                 LET t0 == WithDone(S)
                     once == propagate_done_upward(t0, Live(t0), n)
                 IN /\ \A c \in Cells \ Range(v) : once.done[c] = t0.done[c]
                    /\ \A i \in 1..Len(v) :
                          children[v[i]] # <<>> =>
                              (once.done[v[i]] <=>
                                   AllChildrenDone(children, once.done, v[i]))
                    /\ once = [t0 EXCEPT !.done = once.done]

\* A toggle of a node two levels below a root has just completed the chain
\* up to that root.
PropagationWalksChainOnceWitness ==
    /\ last.op = "toggle" /\ last.ok
    /\ parent[last.id] # NoParent
    /\ parent[parent[last.id]] # NoParent
    /\ done[parent[parent[last.id]]]

\* Position of x in the list s.
Pos(s, x) == CHOOSE i \in 1..Len(s) : s[i] = x

\* From list L to list L2: the nodes in both, other than those in appended,
\* keep their relative order, and every node that is new in L2 or in
\* appended stands after all other nodes of L2.
ListOrderKept(L, L2, appended) ==
    /\ \A a, b \in (Range(L) \cap Range(L2)) \ appended :
           Pos(L, a) < Pos(L, b) => Pos(L2, a) < Pos(L2, b)
    /\ \A x \in (Range(L2) \ Range(L)) \cup (appended \cap Range(L2)) :
           \A y \in Range(L2) \ {x} : Pos(L2, y) < Pos(L2, x)

\* C17 as stated: across any operation, two nodes in the same owner list
\* before and after keep their relative order, and a newly attached node is
\* placed after all nodes already in the list.
SiblingOrderKept ==
    [][/\ ListOrderKept(roots, roots', {})
       /\ \A p \in Cells : ListOrderKept(children[p], children'[p], {})]_vars

\* The node a successful move_node re-appends.
Moved(l) == IF l.op = "move_node" /\ l.ok THEN {l.id} ELSE {}

\* C17 amended: as stated, except that the node moved by a successful
\* move_node is placed after all other nodes of its new parent's list also
\* when that parent already was its parent, so it does not keep its order
\* relative to its siblings.
SiblingOrderKeptButMoved ==
    [][/\ ListOrderKept(roots, roots', Moved(last'))
       /\ \A p \in Cells :
             ListOrderKept(children[p], children'[p], Moved(last'))]_vars

\* A move has just appended a former root to a children list that already
\* held a node.
SiblingOrderKeptButMovedWitness ==
    /\ last.op = "move_node" /\ last.ok
    /\ last.from = NoParent
    /\ Len(children[last.arg]) >= 2
    /\ children[last.arg][Len(children[last.arg])] = last.id

\* C18: move_node fails only when the ids are equal, one of them is unknown,
\* or new_parent_id lies in the subtree of id: in every other case it
\* returns true and the node ends as the last child of new_parent_id.
MoveSucceedsOtherwise ==
    [][(/\ last'.op = "move_node"
        /\ last'.id # last'.arg
        /\ last'.id \in index /\ last'.arg \in index
        /\ last'.arg \notin Descendants(children, last'.id))
       => /\ last'.ok
          /\ parent'[last'.id] = last'.arg
          /\ children'[last'.arg] # <<>>
          /\ children'[last'.arg][Len(children'[last'.arg])] = last'.id]_vars

\* A move has just put a node under its own former parent's parent.
MoveSucceedsOtherwiseWitness ==
    /\ last.op = "move_node" /\ last.ok
    /\ last.from # NoParent
    /\ parent[last.from] = last.arg
    /\ parent[last.id] = last.arg

\* C19: move_node(id, p) with p already the parent of id returns true; the
\* parent links and the index are unchanged, id is taken from its position
\* in p's children and appended as the last child, and afterwards every
\* node with children has done equal to the AND of its children's flags.
MoveUnderSameParentReappends ==
    [][(/\ last'.op = "move_node"
        /\ last'.id \in index
        /\ parent[last'.id] = last'.arg)
       => /\ last'.ok
          /\ parent' = parent /\ index' = index /\ roots' = roots
          /\ children'[last'.arg] =
                 Append(Retain(children[last'.arg], last'.id), last'.id)
          /\ \A p \in Cells \ {last'.arg} : children'[p] = children[p]
          /\ \A n \in index' :
                children'[n] # <<>> =>
                    (done'[n] <=> AllChildrenDone(children', done', n))]_vars

\* A move under the unchanged parent has just put the older of two siblings
\* behind the younger one.
MoveUnderSameParentReappendsWitness ==
    /\ last.op = "move_node" /\ last.ok
    /\ last.from = last.arg
    /\ Len(children[last.arg]) = 2
    /\ children[last.arg][2] = last.id
    /\ children[last.arg][1] > last.id

\* C20: a node that has a parent never becomes a root: roots gains an entry
\* only through add_root and loses one only through the delete of that root
\* or a successful move_node of that root; every other call leaves roots
\* unchanged.
RootsChangeOnlyByRootCalls ==
    [][/\ \A n \in index : parent[n] # NoParent => n \notin Range(roots')
       /\ Range(roots') \ Range(roots) # {} =>
             /\ last'.op = "add_root"
             /\ roots' = Append(roots, last'.val)
       /\ Range(roots) \ Range(roots') # {} =>
             /\ last'.op \in {"delete", "move_node"} /\ last'.ok
             /\ last'.id \in Range(roots)
             /\ roots' = Retain(roots, last'.id)
       /\ (\/ last'.op \in {"toggle", "add_child", "get"}
           \/ ~last'.ok
           \/ last'.id \notin Range(roots) /\ last'.op # "add_root")
          => roots' = roots]_vars

\* A move has just taken a root under another node while a root remains.
RootsChangeOnlyByRootCallsWitness ==
    /\ last.op = "move_node" /\ last.ok
    /\ last.from = NoParent
    /\ last.id \in last.pre
    /\ last.id \notin Range(roots)
    /\ roots # <<>>

====
